---------------------------- MODULE Spec2Model ----------------------------
(***************************************************************************)
(* State-machine model of the MergePics collage editor.                    *)
(*                                                                         *)
(*   Home.tsx          page state: images, template, aspect ratio, ...     *)
(*   ImageUploader.tsx asynchronous file reads, removal, clear             *)
(*   PhotoCollage.tsx  geometry, compositor (drawCollage), transforms,     *)
(*                     thumbnail reorder and canvas drag gestures          *)
(*                                                                         *)
(* Conventions.                                                            *)
(*  - JavaScript indices are kept 0-based; At(s, i) reads s[i] of JS.      *)
(*  - A nullable value is <<>> (null) or <<v>>.                            *)
(*  - A string the code parses is a sequence of one-character strings.     *)
(*  - A JavaScript number that may be NaN or infinite is Num(n), NaN or    *)
(*    Infinity(sign).                                                      *)
(*  - Transform offsets x, y are stored in half pixels (the drag           *)
(*    sensitivity is 0.5) and scale in tenths (the slider step is 0.1).    *)
(*  - Canvas coordinates are exact rationals kept as integers: horizontal  *)
(*    values are multiplied by 200 * cols, vertical ones by 200 * rows.    *)
(***************************************************************************)
EXTENDS Integers, Sequences, FiniteSets, TLC

VARIABLES
  \* Home.tsx
  uploadedImages,      \* string[]: data URLs, here file names
  selectedTemplate,    \* CollageTemplate
  aspectRatio,         \* string "w:h"
  resolution,          \* number
  selectedFilter,      \* string
  \* PhotoCollage.tsx
  dragIndex,           \* number | null
  dropIndex,           \* number | null
  imageTransforms,     \* ImageTransform[]
  selectedImageIndex,  \* number | null
  dragState,           \* DragState | null
  \* ImageUploader.tsx and the browser
  batches,             \* the calls of handleFiles whose file reads are pending
  dragSource,          \* null or the thumbnail a drag in progress started on
  canvasOffset,        \* canvas.offsetWidth / offsetHeight (displayed size)
  canvas,              \* the canvas bitmap: its size and what was drawn on it
  passes,              \* the drawCollage calls that are awaiting an image
  completed,           \* null or the drawCollage call that finished last
  \* results of the pure geometry functions
  outputSize,          \* null or the value of calculateOutputSize
  selectorSize,        \* null or the value of calculateSize (SizeSelector)
  cellRects,           \* null or the rectangles of the grid loop
  hitIndex,            \* null or a hit test: the point's cell and the result
  \* workers-site/index.js
  worker,              \* null or the fetch event that handleEvent is answering
  \* Home.tsx, the recommendation effect run by run
  templateEffect,      \* the identity of selectedTemplate, the deps of the last run
  \* history
  lastEvent            \* null or the event that ran last, where a property needs it

vars == <<uploadedImages, selectedTemplate, aspectRatio, resolution,
          selectedFilter, dragIndex, dropIndex, imageTransforms,
          selectedImageIndex, dragState, canvasOffset, canvas, passes,
          completed, outputSize, selectorSize, cellRects, hitIndex, worker,
          templateEffect, batches,
          dragSource, lastEvent>>

-----------------------------------------------------------------------------
(* JavaScript values and array primitives *)

Null == <<>>
Some(v) == <<v>>
Val(o) == o[1]

Min(a, b) == IF a <= b THEN a ELSE b
Max(a, b) == IF a >= b THEN a ELSE b

At(s, i) == s[i + 1]
HasIndex(s, i) == i >= 0 /\ i < Len(s)

Num(n) == [n |-> n]
NaN == [nan |-> TRUE]
Infinity(sign) == [inf |-> sign]
IsFinite(v) == "n" \in DOMAIN v

\* Array.prototype.splice(start, 1) for start >= 0: the array that is left.
SpliceRemove(s, start) ==
  IF start >= Len(s) THEN s
  ELSE SubSeq(s, 1, start) \o SubSeq(s, start + 2, Len(s))

\* Array.prototype.splice(start, 0, item) for start >= 0.
SpliceInsert(s, start, item) ==
  LET k == Min(start, Len(s))
  IN SubSeq(s, 1, k) \o <<item>> \o SubSeq(s, k + 1, Len(s))

\* String.prototype.split(sep) on a string held as a sequence of characters.
RECURSIVE SplitFrom(_, _, _)
SplitFrom(s, sep, cur) ==
  IF s = <<>> THEN <<cur>>
  ELSE IF Head(s) = sep THEN <<cur>> \o SplitFrom(Tail(s), sep, <<>>)
  ELSE SplitFrom(Tail(s), sep, Append(cur, Head(s)))

Split(s, sep) == SplitFrom(s, sep, <<>>)

DigitValue(c) ==
  CASE c = "0" -> 0 [] c = "1" -> 1 [] c = "2" -> 2 [] c = "3" -> 3
    [] c = "4" -> 4 [] c = "5" -> 5 [] c = "6" -> 6 [] c = "7" -> 7
    [] c = "8" -> 8 [] c = "9" -> 9

RECURSIVE DigitsValue(_, _)
DigitsValue(s, acc) ==
  IF s = <<>> THEN acc ELSE DigitsValue(Tail(s), 10 * acc + DigitValue(Head(s)))

\* Number(str) for an optionally signed decimal integer literal.
Number(s) ==
  IF s = <<>> THEN 0
  ELSE IF Head(s) = "-" THEN 0 - DigitsValue(Tail(s), 0)
  ELSE DigitsValue(s, 0)

\* The result of dividing and rounding down instead of rounding to nearest.
RoundDivFloor(n, d) ==
  IF d > 0 THEN Num(n \div d)
  ELSE IF d < 0 THEN Num((0 - n) \div (0 - d))
  ELSE IF n = 0 THEN NaN
  ELSE Infinity(IF n > 0 THEN 1 ELSE -1)

\* Math.round(n / d): the nearest integer, a tie going up; NaN and the
\* infinities when the division has no finite value.
RoundDiv(n, d) ==
  IF d > 0 THEN Num((2 * n + d) \div (2 * d))
  ELSE IF d < 0 THEN Num((2 * (0 - n) - d) \div (2 * (0 - d)))
  ELSE IF n = 0 THEN NaN
  ELSE Infinity(IF n > 0 THEN 1 ELSE -1)

-----------------------------------------------------------------------------
(* Geometry: calculateOutputSize (PhotoCollage.tsx 35-47) *)

ParseAspect(ratio) ==
  LET parts == Split(ratio, ":")
  IN [w |-> Number(parts[1]), h |-> Number(parts[2])]

\* calculateOutputSize with Math.floor in place of Math.round.
calculateOutputSizeFloor(ratio, res) ==
  LET w == ParseAspect(ratio).w
      h == ParseAspect(ratio).h
  IN IF w >= h
       THEN [width |-> Num(res), height |-> RoundDivFloor(res * h, w)]
       ELSE [width |-> RoundDivFloor(res * w, h), height |-> Num(res)]

calculateOutputSize(ratio, res) ==
  LET w == ParseAspect(ratio).w
      h == ParseAspect(ratio).h
  IN IF w >= h
       THEN [width |-> Num(res), height |-> RoundDiv(res * h, w)]
       ELSE [width |-> RoundDiv(res * w, h), height |-> Num(res)]

\* An output size whose two dimensions are finite numbers, as integers.
IsFiniteSize(os) == IsFinite(os.width) /\ IsFinite(os.height)
Pixels(os) == [width |-> os.width.n, height |-> os.height.n]

-----------------------------------------------------------------------------
(* Geometry: the grid of drawCollage (262-296) and of                       *)
(* getImageIndexAtPosition (418-434).  size is Pixels(outputSize).          *)
(* padding, gap and the available sizes are multiplied by 200; a cell's x   *)
(* and width by 200 * cols, its y and height by 200 * rows.                 *)

padding(size) == 4 * Min(size.width, size.height)

gap(size, style) ==
  IF style = "polaroid" THEN padding(size) * 2 ELSE padding(size) \div 2

\* availableWidth without the room the gaps take.
availableWidthNoGaps(size, t) == 200 * size.width - padding(size) * 2

availableWidth(size, t) ==
  200 * size.width - padding(size) * 2 - gap(size, t.style) * (t.cols - 1)

availableHeight(size, t) ==
  200 * size.height - padding(size) * 2 - gap(size, t.style) * (t.rows - 1)

cellWidth(size, t) == availableWidth(size, t)
cellHeight(size, t) == availableHeight(size, t)

totalSlots(t) == t.rows * t.cols

\* x = padding + col * (cellWidth + gap), y = padding + row * (cellHeight + gap)
cellX(size, t, col) ==
  padding(size) * t.cols + col * (cellWidth(size, t) + gap(size, t.style) * t.cols)

cellY(size, t, row) ==
  padding(size) * t.rows + row * (cellHeight(size, t) + gap(size, t.style) * t.rows)

\* Math.random() in quarters: the least value 0, the middle 1/2, and 3/4.
RandomValues == {0, 2, 3}

\* (Math.random() - 0.5) * padding, for a horizontal (n = cols) or vertical
\* (n = rows) coordinate.
Jitter(size, r, n) == (r - 2) * Min(size.width, size.height) * n

\* The rectangle the cell loop of drawCollage uses for (row, col): the
\* polaroid style moves the cells that hold a loaded image by a random offset.
\* rand[index] = <<rx, ry>> are the two values Math.random() returns.
DrawRect(size, t, row, col, nLoaded, rand) ==
  LET index == row * t.cols + col
      jittered == t.style = "polaroid" /\ index < nLoaded
  IN [index |-> index, row |-> row, col |-> col,
      x |-> cellX(size, t, col)
              + (IF jittered THEN Jitter(size, rand[index][1], t.cols) ELSE 0),
      y |-> cellY(size, t, row)
              + (IF jittered THEN Jitter(size, rand[index][2], t.rows) ELSE 0),
      width |-> cellWidth(size, t),
      height |-> cellHeight(size, t)]

\* The rectangles in the order in which the nested loops visit them.
RECURSIVE DrawLoop(_, _, _, _, _, _)
DrawLoop(size, t, row, col, nLoaded, rand) ==
  IF row >= t.rows THEN <<>>
  ELSE IF col >= t.cols THEN DrawLoop(size, t, row + 1, 0, nLoaded, rand)
  ELSE <<DrawRect(size, t, row, col, nLoaded, rand)>>
         \o DrawLoop(size, t, row, col + 1, nLoaded, rand)

DrawRects(size, t, nLoaded, rand) == DrawLoop(size, t, 0, 0, nLoaded, rand)

-----------------------------------------------------------------------------
(* Hit test: getImageIndexAtPosition (404-443).                             *)
(* A point is [xn, xd, yn, yd]: x = xn / xd and y = yn / yd, relative to    *)
(* the displayed canvas, xd > 0 and yd > 0.                               *)

\* canvasX >= cellX && canvasX <= cellX + cellWidth, with
\* canvasX = x / scaleX and scaleX = canvas.offsetWidth / outputSize.width.
\* A zero offsetWidth makes canvasX infinite or NaN: no cell holds it.
InColumn(pt, size, t, disp, col) ==
  /\ disp.offsetWidth > 0
  /\ pt.xn * size.width * 200 * t.cols
       >= cellX(size, t, col) * pt.xd * disp.offsetWidth
  /\ pt.xn * size.width * 200 * t.cols
       <= (cellX(size, t, col) + cellWidth(size, t)) * pt.xd * disp.offsetWidth

InRow(pt, size, t, disp, row) ==
  /\ disp.offsetHeight > 0
  /\ pt.yn * size.height * 200 * t.rows
       >= cellY(size, t, row) * pt.yd * disp.offsetHeight
  /\ pt.yn * size.height * 200 * t.rows
       <= (cellY(size, t, row) + cellHeight(size, t)) * pt.yd * disp.offsetHeight

\* The indices the loops would return at, were they to go on: the first wins.
HitCandidates(pt, size, t, nImages, disp) ==
  { row * t.cols + col : <<row, col>> \in
      { rc \in (0 .. t.rows - 1) \X (0 .. t.cols - 1) :
          /\ rc[1] * t.cols + rc[2] < nImages
          /\ InColumn(pt, size, t, disp, rc[2])
          /\ InRow(pt, size, t, disp, rc[1]) } }

getImageIndexAtPositionFirst(pt, size, t, nImages, disp) ==
  LET hits == HitCandidates(pt, size, t, nImages, disp)
  IN IF hits = {} THEN 0
     ELSE CHOOSE i \in hits : \A j \in hits : i <= j

getImageIndexAtPosition(pt, size, t, nImages, disp) ==
  LET hits == HitCandidates(pt, size, t, nImages, disp)
  IN IF hits = {} THEN -1
     ELSE CHOOSE i \in hits : \A j \in hits : i <= j

\* The point of the displayed canvas that corresponds to the centre of the
\* cell (row, col): (cellX + cellWidth / 2) * scaleX, and likewise for y.
CellCentre(size, t, disp, row, col) ==
  [xn |-> (2 * cellX(size, t, col) + cellWidth(size, t)) * disp.offsetWidth,
   xd |-> 400 * t.cols * size.width,
   yn |-> (2 * cellY(size, t, row) + cellHeight(size, t)) * disp.offsetHeight,
   yd |-> 400 * t.rows * size.height]

-----------------------------------------------------------------------------
(* calculateSize of the size selector (PuzzleBoard.tsx 411-425): the same   *)
(* computation, written a second time.                                      *)

calculateSize(ratio, res) ==
  LET w == ParseAspect(ratio).w
      h == ParseAspect(ratio).h
  IN IF w >= h
       THEN [width |-> Num(res), height |-> RoundDiv(res * h, w)]
       ELSE [width |-> RoundDiv(res * w, h), height |-> Num(res)]

-----------------------------------------------------------------------------
(* The options the page offers, and the state after mounting *)

\* aspectRatioOptions (PuzzleBoard.tsx 350-399)
aspectRatioOptions ==
  { <<"1", ":", "1">>, <<"3", ":", "4">>, <<"4", ":", "3">>,
    <<"9", ":", "1", "6">>, <<"1", "6", ":", "9">>, <<"2", ":", "3">> }

\* resolutionOptions (PuzzleBoard.tsx 401-406)
resolutionOptions == {720, 1080, 1440, 2048}

Template(id, rows, cols, style) ==
  [id |-> id, rows |-> rows, cols |-> cols, style |-> style]

\* useState initial values of Home (28-39) and PhotoCollage (69-72)
InitialTemplate == Template("1x1", 1, 1, "grid")
InitialAspectRatio == <<"1", ":", "1">>
InitialResolution == 1080

\* The displayed canvas: style maxWidth 300px, maxHeight 350px (575-581).
InitialCanvasOffset == [offsetWidth |-> 300, offsetHeight |-> 300]

InitialFilter == "none"

HomeMounted ==
  /\ uploadedImages = <<>>
  /\ selectedTemplate = InitialTemplate
  /\ aspectRatio = InitialAspectRatio
  /\ resolution = InitialResolution
  /\ selectedFilter = InitialFilter

\* A canvas element before anything is drawn: 300 x 150, blank.
BlankCanvas == [width |-> Num(300), height |-> Num(150), ops |-> <<>>]

NoRender ==
  /\ canvas = BlankCanvas
  /\ passes = <<>>
  /\ completed = Null

CollageMounted ==
  /\ dragIndex = Null
  /\ dropIndex = Null
  /\ imageTransforms = <<>>
  /\ selectedImageIndex = Null
  /\ dragState = Null

NoResults ==
  /\ outputSize = Null
  /\ selectorSize = Null
  /\ cellRects = Null
  /\ hitIndex = Null
  /\ worker = Null
  /\ templateEffect = [ref |-> 0, deps |-> Null]

homeVars == <<uploadedImages, selectedTemplate, aspectRatio, resolution,
              selectedFilter>>
renderVars == <<canvas, passes, completed>>
collageVars == <<dragIndex, dropIndex, imageTransforms, selectedImageIndex,
                 dragState>>
resultVars == <<outputSize, selectorSize, cellRects, hitIndex, worker,
                 templateEffect>>
envVars == <<batches, dragSource, lastEvent>>

\* No upload and no thumbnail drag is in progress.
NoEvents ==
  /\ batches = <<>>
  /\ dragSource = Null
  /\ lastEvent = Null

-----------------------------------------------------------------------------
(* SpecSize: the two output-size functions applied to bounded inputs *)

MaxAspect == 4
MaxResolution == 4

DigitChar(d) ==
  CASE d = 0 -> "0" [] d = 1 -> "1" [] d = 2 -> "2" [] d = 3 -> "3"
    [] d = 4 -> "4" [] d = 5 -> "5" [] d = 6 -> "6" [] d = 7 -> "7"
    [] d = 8 -> "8" [] d = 9 -> "9"

RECURSIVE NatChars(_)
NatChars(n) ==
  IF n < 10 THEN <<DigitChar(n)>>
  ELSE NatChars(n \div 10) \o <<DigitChar(n % 10)>>

IntChars(n) == IF n < 0 THEN <<"-">> \o NatChars(0 - n) ELSE NatChars(n)

AspectString(w, h) == IntChars(w) \o <<":">> \o IntChars(h)

SizeAspects ==
  { AspectString(w, h) : w \in -1 .. MaxAspect, h \in -1 .. MaxAspect }
    \cup aspectRatioOptions

SizeResolutions == (-1 .. MaxResolution) \cup resolutionOptions

SizeInit ==
  /\ aspectRatio \in SizeAspects
  /\ resolution \in SizeResolutions
  /\ uploadedImages = <<>>
  /\ selectedTemplate = InitialTemplate
  /\ selectedFilter = InitialFilter
  /\ canvasOffset = InitialCanvasOffset
  /\ CollageMounted
  /\ NoRender
  /\ NoResults
  /\ NoEvents

ComputeOutputSize ==
  /\ outputSize = Null
  /\ outputSize' = Some(calculateOutputSize(aspectRatio, resolution))
  /\ UNCHANGED <<homeVars, collageVars, canvasOffset, renderVars, envVars,
                 selectorSize, cellRects, hitIndex, worker,
                 templateEffect>>

ComputeSelectorSize ==
  /\ selectorSize = Null
  /\ selectorSize' = Some(calculateSize(aspectRatio, resolution))
  /\ UNCHANGED <<homeVars, collageVars, canvasOffset, renderVars, envVars,
                 outputSize, cellRects, hitIndex, worker,
                 templateEffect>>

SizeNext == ComputeOutputSize \/ ComputeSelectorSize

SpecSize == SizeInit /\ [][SizeNext]_vars

\* The inputs as the numbers the code parses them to.
aspectW == ParseAspect(aspectRatio).w
aspectH == ParseAspect(aspectRatio).h
PositiveInputs == aspectW > 0 /\ aspectH > 0 /\ resolution > 0

\* k = round(n / d) for positive d: the integer with n/d - 1/2 < k <= n/d + 1/2.
IsRounded(k, n, d) == 2 * n - d < 2 * k * d /\ 2 * k * d <= 2 * n + d

\* What the size formula of the data model asks of a computed size.
SizeAsSpecified(os) ==
  /\ IsFiniteSize(os)
  /\ IF aspectW >= aspectH
       THEN /\ os.width.n = resolution
            /\ IsRounded(os.height.n, resolution * aspectH, aspectW)
       ELSE /\ os.height.n = resolution
            /\ IsRounded(os.width.n, resolution * aspectW, aspectH)

\* C5: for positive aspectW, aspectH and resolution, the wider side of the
\* output size is the resolution and the other one is the resolution scaled
\* by the aspect ratio, rounded; for calculateOutputSize and for calculateSize.
C5_OutputSizeFormula ==
  PositiveInputs =>
    /\ outputSize # Null => SizeAsSpecified(Val(outputSize))
    /\ selectorSize # Null => SizeAsSpecified(Val(selectorSize))

C5_Witness ==
  /\ outputSize # Null /\ selectorSize # Null
  /\ aspectW = 3 /\ aspectH = 4 /\ resolution = 2
  /\ Val(outputSize) = [width |-> Num(2), height |-> Num(2)]

PositiveSize(os) == IsFiniteSize(os) /\ os.width.n >= 1 /\ os.height.n >= 1

\* The scaled side rounds to at least 1.
RoundsToPositive ==
  2 * resolution * Min(aspectW, aspectH) >= Max(aspectW, aspectH)

\* C6 as claimed: for positive integer aspectW, aspectH and resolution both
\* dimensions of the computed size are at least 1.
C6_PositiveDimensions ==
  (PositiveInputs /\ outputSize # Null) => PositiveSize(Val(outputSize))

\* C6 amended: both dimensions are at least 1 exactly when
\* 2 * resolution * min(aspectW, aspectH) >= max(aspectW, aspectH), which
\* every offered aspect ratio and resolution satisfies; for the other
\* positive inputs the scaled dimension is 0.
C6_PositiveWhenRounding ==
  (PositiveInputs /\ outputSize # Null) =>
    /\ IsFiniteSize(Val(outputSize))
    /\ PositiveSize(Val(outputSize)) <=> RoundsToPositive
    /\ (aspectRatio \in aspectRatioOptions /\ resolution \in resolutionOptions)
         => RoundsToPositive

C6_Witness ==
  /\ aspectRatio = <<"1", "6", ":", "9">>
  /\ resolution = 1080
  /\ outputSize = Some([width |-> Num(1080), height |-> Num(608)])

\* A defined error in place of a size.
IsConfigurationError(r) == "error" \in DOMAIN r

\* C7 as claimed: a non-positive aspectW, aspectH or resolution makes the
\* output-size computation return a ConfigurationError and no size.
C7_ConfigurationError ==
  (~PositiveInputs /\ outputSize # Null) =>
    IsConfigurationError(Val(outputSize))

-----------------------------------------------------------------------------
(* SpecGrid: the cell rectangles of drawCollage for bounded layouts *)

MaxGrid == 3
MaxGridImages == 2

Styles == {"grid", "polaroid", "magazine", "creative"}

FileNames == <<"f1", "f2", "f3", "f4", "f5", "f6">>

\* Layouts of up to MaxGrid rows and columns in every style, and the
\* narrowest layouts in which the polaroid gaps use up a square canvas.
GridTemplates ==
  { Template("grid", r, c, st) : r \in 1 .. MaxGrid, c \in 1 .. MaxGrid,
                                 st \in Styles }
    \cup { Template("wide", 1, 25, "polaroid"),
           Template("tall", 25, 1, "polaroid") }

GridAspects == { <<"1", ":", "1">>, <<"4", ":", "3">>, <<"9", ":", "1", "6">> }

GridInit ==
  /\ aspectRatio \in GridAspects
  /\ resolution \in 1 .. MaxResolution
  /\ selectedTemplate \in GridTemplates
  /\ uploadedImages \in { SubSeq(FileNames, 1, n) : n \in 0 .. MaxGridImages }
  /\ selectedFilter = InitialFilter
  /\ canvasOffset = InitialCanvasOffset
  /\ CollageMounted
  /\ NoRender
  /\ NoResults
  /\ NoEvents

\* The geometry part of one drawCollage call: nLoaded images were loaded and
\* rand holds the values Math.random() returned for the cells it is called for.
ComputeCells ==
  /\ outputSize # Null
  /\ cellRects = Null
  /\ \E nLoaded \in 0 .. Min(Len(uploadedImages), totalSlots(selectedTemplate)) :
       \E rand \in [0 .. (IF selectedTemplate.style = "polaroid"
                            THEN nLoaded ELSE 0) - 1
                      -> RandomValues \X RandomValues] :
         cellRects' = Some([nLoaded |-> nLoaded,
                            rects |-> DrawRects(Pixels(Val(outputSize)),
                                                selectedTemplate, nLoaded, rand)])
  /\ UNCHANGED <<homeVars, collageVars, canvasOffset, renderVars, envVars,
                 outputSize, selectorSize, hitIndex, worker,
                 templateEffect>>

GridNext == ComputeOutputSize \/ ComputeCells

SpecGrid == GridInit /\ [][GridNext]_vars

\* The canvas in the units of the rectangles.
CanvasSize == Pixels(Val(outputSize))
CanvasRight == 200 * CanvasSize.width * selectedTemplate.cols
CanvasBottom == 200 * CanvasSize.height * selectedTemplate.rows
PaddingX == padding(CanvasSize) * selectedTemplate.cols
PaddingY == padding(CanvasSize) * selectedTemplate.rows

Rects == Val(cellRects).rects

RowMajor ==
  /\ Len(Rects) = selectedTemplate.rows * selectedTemplate.cols
  /\ \A k \in 1 .. Len(Rects) :
       /\ Rects[k].index = k - 1
       /\ Rects[k].row = (k - 1) \div selectedTemplate.cols
       /\ Rects[k].col = (k - 1) % selectedTemplate.cols

UniformPositive ==
  \A k \in 1 .. Len(Rects) :
    /\ Rects[k].width = Rects[1].width /\ Rects[k].width > 0
    /\ Rects[k].height = Rects[1].height /\ Rects[k].height > 0

Overlap(a, b) ==
  /\ a.x < b.x + b.width /\ b.x < a.x + a.width
  /\ a.y < b.y + b.height /\ b.y < a.y + a.height

NonOverlapping ==
  \A j, k \in 1 .. Len(Rects) : j # k => ~Overlap(Rects[j], Rects[k])

\* r lies in the canvas with (mx, my) taken off on every side.
Inside(r, mx, my) ==
  /\ r.x >= mx /\ r.x + r.width <= CanvasRight - mx
  /\ r.y >= my /\ r.y + r.height <= CanvasBottom - my

\* The polaroid style moved this cell by its random offset.
Moved(r) == selectedTemplate.style = "polaroid" /\ r.index < Val(cellRects).nLoaded

\* C8 as claimed: for every rows, cols >= 1 and every style the rectangles
\* are rows * cols in row-major order, of one positive width and height,
\* pairwise non-overlapping, each inside the canvas inset by the padding.
C8_CellRects ==
  cellRects # Null =>
    /\ RowMajor
    /\ UniformPositive
    /\ NonOverlapping
    /\ \A k \in 1 .. Len(Rects) : Inside(Rects[k], PaddingX, PaddingY)

\* Padding and gaps leave room for the cells.
RoomForCells ==
  /\ availableWidth(CanvasSize, selectedTemplate) > 0
  /\ availableHeight(CanvasSize, selectedTemplate) > 0

\* C8 amended: the rectangles are always rows * cols in row-major order and
\* of one width and height; when padding and gaps leave a positive available
\* width and height (as they do for all rows, cols <= 24) that size is
\* positive and the rectangles are pairwise non-overlapping and lie inside
\* the canvas: inside its padding inset when the cell is not moved, inside
\* half the padding when the polaroid style moved it by its random offset.
C8_CellRectsWithRoom ==
  cellRects # Null =>
    /\ RowMajor
    /\ \A k \in 1 .. Len(Rects) :
         Rects[k].width = Rects[1].width /\ Rects[k].height = Rects[1].height
    /\ (selectedTemplate.rows <= 24 /\ selectedTemplate.cols <= 24)
         => RoomForCells
    /\ RoomForCells =>
         /\ UniformPositive
         /\ NonOverlapping
         /\ \A k \in 1 .. Len(Rects) :
              IF Moved(Rects[k])
                THEN Inside(Rects[k], PaddingX \div 2, PaddingY \div 2)
                ELSE Inside(Rects[k], PaddingX, PaddingY)

C8_Witness ==
  /\ cellRects # Null
  /\ selectedTemplate.rows = 2 /\ selectedTemplate.cols = 2
  /\ selectedTemplate.style = "polaroid"
  /\ Val(cellRects).nLoaded = 2
  /\ Rects[1].x < PaddingX
  /\ Rects[2].x > cellX(CanvasSize, selectedTemplate, 1)

-----------------------------------------------------------------------------
(* The templates the selector offers (PuzzleBoard.tsx 542-722) *)

generateTemplatesForCount(count) ==
  IF count = 1 THEN << Template("1x1", 1, 1, "grid"),
                       Template("polaroid-1", 1, 1, "polaroid") >>
  ELSE IF count = 2 THEN << Template("2x1", 1, 2, "grid"),
                            Template("1x2", 2, 1, "grid"),
                            Template("magazine-2", 1, 2, "magazine") >>
  ELSE IF count = 3 THEN << Template("3x1", 1, 3, "grid"),
                            Template("1x3", 3, 1, "grid"),
                            Template("triangle-3", 2, 2, "creative"),
                            Template("polaroid-3", 2, 2, "polaroid") >>
  ELSE IF count = 4 THEN << Template("2x2", 2, 2, "grid"),
                            Template("4x1", 1, 4, "grid"),
                            Template("magazine-4", 2, 2, "magazine"),
                            Template("collage-4", 2, 2, "creative") >>
  ELSE IF count = 6 THEN << Template("3x2", 2, 3, "grid"),
                            Template("2x3", 3, 2, "grid"),
                            Template("magazine-6", 2, 3, "magazine") >>
  ELSE IF count = 9 THEN << Template("3x3", 3, 3, "grid"),
                            Template("polaroid-9", 3, 3, "polaroid") >>
  ELSE <<>>

Range(s) == { s[k] : k \in 1 .. Len(s) }

\* The templates offered for some number of images up to n.
TemplatesUpTo(n) ==
  UNION { Range(generateTemplatesForCount(count)) : count \in 0 .. n }

-----------------------------------------------------------------------------
(* The compositor: drawCollage (PhotoCollage.tsx 242-355)                   *)
(*                                                                          *)
(* A call of drawCollage is a pass: it reads the props and state of the     *)
(* render it was created in, clears the canvas, then awaits the images one  *)
(* by one; what follows the last await (the cell loop and the watermark)    *)
(* runs without interruption.  Several passes can be awaiting at once.      *)
(* The canvas records the drawing operations since it was last cleared; a   *)
(* cell is named by its index, its rectangle is DrawRect.                   *)

\* Data URLs that do not decode as an image: loadImage rejects for them.
CorruptImages == {"x1", "x2", "undefined"}

\* loadImage (97-105): whether img.onload (TRUE) or img.onerror (FALSE) fires.
loadImage(src) == src \notin CorruptImages

DefaultTransform == [x |-> 0, y |-> 0, scale |-> 10]
Undefined == [undefined |-> TRUE]

\* imageTransforms[index] as a condition: the entry exists and is an object.
HasTransform(transforms, index) ==
  HasIndex(transforms, index) /\ At(transforms, index) # Undefined

\* The number of images a pass awaits: Math.min(images.length, totalSlots).
LoadCount(p) == Min(Len(p.images), totalSlots(p.template))

\* The body of the cell loop for one cell (298-338).
CellOps(p, index) ==
  IF index < Len(p.loaded) /\ HasTransform(p.transforms, index)
    THEN <<[op |-> "image", cell |-> index, image |-> At(p.loaded, index),
            transform |-> At(p.transforms, index),
            style |-> p.template.style, filter |-> p.filter]>>
           \o (IF p.selected = Some(index)
                 THEN <<[op |-> "outline", cell |-> index]>> ELSE <<>>)
    ELSE <<[op |-> "placeholder", cell |-> index, label |-> index + 1]>>

RECURSIVE CellLoop(_, _)
CellLoop(p, index) ==
  IF index >= totalSlots(p.template) THEN <<>>
  ELSE CellOps(p, index) \o CellLoop(p, index + 1)

\* The watermark (342-354).
Watermark(p) ==
  IF Len(p.loaded) > 0 THEN <<[op |-> "watermark"]>> ELSE <<>>

\* Everything a pass draws once its images are loaded.
DrawOps(p) == CellLoop(p, 0) \o Watermark(p)

\* What a render of PhotoCollage sees and what its effects act on: the
\* props, the state the compositor reads, and the canvas.
Current ==
  [images |-> uploadedImages, template |-> selectedTemplate,
   aspectRatio |-> aspectRatio, resolution |-> resolution,
   filter |-> selectedFilter, transforms |-> imageTransforms,
   selected |-> selectedImageIndex, source |-> dragSource,
   canvas |-> canvas, passes |-> passes, completed |-> completed]

\* The pass that a call of drawCollage in render r starts.
NewPass(r) ==
  [images |-> r.images, transforms |-> r.transforms,
   template |-> r.template, aspectRatio |-> r.aspectRatio,
   resolution |-> r.resolution, filter |-> r.filter,
   selected |-> r.selected, next |-> 0, loaded |-> <<>>]

\* canvas.width = ..., canvas.height = ... and the background fill (249-260).
ClearedCanvas(p) ==
  [width |-> calculateOutputSize(p.aspectRatio, p.resolution).width,
   height |-> calculateOutputSize(p.aspectRatio, p.resolution).height,
   ops |-> <<[op |-> "background"]>>]

\* Canvas cv after the cell loop and the watermark of pass p ran on it.
Finish(cv, p) ==
  [cv EXCEPT !.ops = @ \o DrawOps(p)]

\* drawCollage up to its first await, or to its end when it awaits nothing.
drawCollage(r) ==
  LET p == NewPass(r)
  IN IF LoadCount(p) = 0
       THEN [r EXCEPT !.canvas = Finish(ClearedCanvas(p), p),
                      !.completed = Some([pass |-> p, ops |-> DrawOps(p)])]
       ELSE [r EXCEPT !.canvas = ClearedCanvas(p),
                      !.passes = Append(@, p)]

\* One await of pass k settles: the image is pushed when it loaded, the error
\* is logged when it did not; after the last one the pass draws and ends.
Settle(cv, ps, done, k) ==
  LET p == ps[k]
      src == At(p.images, p.next)
      q == [p EXCEPT !.next = @ + 1,
                     !.loaded = IF loadImage(src) THEN Append(@, src) ELSE @]
      rest == SubSeq(ps, 1, k - 1) \o SubSeq(ps, k + 1, Len(ps))
  IN IF q.next < LoadCount(q)
       THEN [canvas |-> cv, passes |-> [ps EXCEPT ![k] = q], completed |-> done]
       ELSE [canvas |-> Finish(cv, q), passes |-> rest,
             completed |-> Some([pass |-> q, ops |-> DrawOps(q)])]

-----------------------------------------------------------------------------
(* SpecRender: render passes and hit tests for bounded props *)

MaxRenderImages == 3
MaxCount == 4
MaxPasses == 2
MaxDisplay == 2

RenderFiles == {"f1", "f2", "x1"}

\* Sequences of distinct files.
RECURSIVE DistinctSeqs(_, _)
DistinctSeqs(files, n) ==
  IF n = 0 THEN { <<>> }
  ELSE { <<>> } \cup
       UNION { { <<f>> \o rest : rest \in DistinctSeqs(files \ {f}, n - 1) } :
               f \in files }

\* The transform position k was given: x = k + 1 pixels.
PositionTransform(k) == [x |-> 2 * (k + 1), y |-> 0, scale |-> 10]

RenderAspects == { <<"4", ":", "3">>, <<"9", ":", "1", "6">> }

RenderInit ==
  /\ uploadedImages \in DistinctSeqs(RenderFiles, MaxRenderImages)
  /\ imageTransforms \in
       { [k \in 1 .. m |-> PositionTransform(k - 1)] : m \in 0 .. MaxRenderImages }
  /\ selectedTemplate \in TemplatesUpTo(MaxCount)
  /\ aspectRatio \in RenderAspects
  /\ resolution = MaxResolution
  /\ selectedFilter = InitialFilter
  /\ selectedImageIndex \in
       { Null } \cup { Some(i) : i \in 0 .. Len(uploadedImages) - 1 }
  /\ canvasOffset \in [offsetWidth : {MaxDisplay}, offsetHeight : 1 .. MaxDisplay]
  /\ dragIndex = Null /\ dropIndex = Null /\ dragState = Null
  /\ NoRender
  /\ NoResults
  /\ NoEvents

\* The redraw effect (560-562) calls drawCollage.
StartRender ==
  /\ Len(passes) < MaxPasses
  /\ \E r \in { drawCollage(Current) } :
       /\ canvas' = r.canvas
       /\ passes' = r.passes
       /\ completed' = r.completed
  /\ UNCHANGED <<homeVars, collageVars, canvasOffset, resultVars, envVars>>

\* img.onload or img.onerror of the image pass k awaits.
ImageSettles ==
  \E k \in 1 .. Len(passes) :
    /\ \E r \in { Settle(canvas, passes, completed, k) } :
         /\ canvas' = r.canvas
         /\ passes' = r.passes
         /\ completed' = r.completed
    /\ UNCHANGED <<homeVars, collageVars, canvasOffset, resultVars, envVars>>

\* getImageIndexAtPosition for the point of the displayed canvas that
\* corresponds to the centre of cell (row, col), once rendering is over.
HitTestCentre ==
  /\ passes = <<>> /\ completed # Null /\ hitIndex = Null
  /\ \E row \in 0 .. selectedTemplate.rows - 1,
        col \in 0 .. selectedTemplate.cols - 1 :
       LET size == Pixels(calculateOutputSize(aspectRatio, resolution))
           pt == CellCentre(size, selectedTemplate, canvasOffset, row, col)
       IN hitIndex' =
            Some([row |-> row, col |-> col,
                  index |-> getImageIndexAtPosition(
                              pt, size, selectedTemplate,
                              Len(uploadedImages), canvasOffset)])
  /\ UNCHANGED <<homeVars, collageVars, canvasOffset, renderVars, envVars,
                 outputSize, selectorSize, cellRects, worker,
                 templateEffect>>

RenderNext == StartRender \/ ImageSettles \/ HitTestCentre

SpecRender == RenderInit /\ [][RenderNext]_vars

\* The last hit test and the pass that finished last.
Hit == Val(hitIndex)
HitCell == Hit.row * selectedTemplate.cols + Hit.col
Drawn == Val(completed).ops
DrawnPass == Val(completed).pass

\* The hit test of a cell centre returns the cell's index when the sequence
\* has an image at that index.
CentreHitsCell ==
  HitCell < Len(uploadedImages) => Hit.index = HitCell

\* The image at the index of the hit cell is drawn in that cell: in no
\* other cell, and the cell shows no other image.
HitImageInHitCell ==
  HitCell < Len(uploadedImages) =>
    \A j \in 1 .. Len(Drawn) :
      Drawn[j].op = "image" =>
        (Drawn[j].cell = HitCell <=> Drawn[j].image = At(uploadedImages, HitCell))

\* C9 as claimed: hit-testing the point that corresponds to the centre of
\* cell (r, c) returns r * cols + c whenever an image exists at that index,
\* and that cell is the one in which the compositor draws that image.
C9_CentreHitsDrawnCell ==
  (hitIndex # Null /\ completed # Null /\ passes = <<>>) =>
    CentreHitsCell /\ HitImageInHitCell

\* The operations that filled cell k in the pass that finished last.
CellFills(k) ==
  { j \in 1 .. Len(Drawn) :
      Drawn[j].op \in {"image", "placeholder"} /\ Drawn[j].cell = k }

\* images[k] drawn with transforms[k], both existing.
IsImageOfCell(o, k) ==
  /\ o.op = "image"
  /\ k < Len(DrawnPass.images) /\ HasTransform(DrawnPass.transforms, k)
  /\ o.image = At(DrawnPass.images, k)
  /\ o.transform = At(DrawnPass.transforms, k)

IsPlaceholderOfCell(o, k) == o.op = "placeholder" /\ o.label = k + 1

\* C10 as claimed: in a completed render pass every cell k receives exactly
\* one of images[k] drawn with transforms[k] (when both exist) or the
\* placeholder labelled k + 1.
C10_CellContents ==
  completed # Null =>
    \A k \in 0 .. totalSlots(DrawnPass.template) - 1 :
      /\ Cardinality(CellFills(k)) = 1
      /\ \A j \in CellFills(k) :
           IsImageOfCell(Drawn[j], k) \/ IsPlaceholderOfCell(Drawn[j], k)

\* C11 as claimed: when the load of images[k] fails during a pass, the pass
\* completes with the placeholder in cell k, and every cell j whose image
\* loaded shows images[j] with transforms[j].
C11_FailedLoadLeavesPlaceholder ==
  completed # Null =>
    \A k \in 0 .. LoadCount(DrawnPass) - 1 :
      /\ Cardinality(CellFills(k)) = 1
      /\ \A j \in CellFills(k) :
           IF loadImage(At(DrawnPass.images, k))
             THEN HasTransform(DrawnPass.transforms, k)
                    => IsImageOfCell(Drawn[j], k)
             ELSE IsPlaceholderOfCell(Drawn[j], k)

\* The cells of the last finished pass that show an image.
ImageCells == { j \in 1 .. Len(Drawn) : Drawn[j].op = "image" }

\* The watermark was stamped in the last finished pass.
Stamped == \E j \in 1 .. Len(Drawn) : Drawn[j].op = "watermark"

\* C12 as claimed: at the end of a pass the watermark has been stamped if
\* and only if at least one image was drawn into a cell during that pass.
C12_WatermarkIffImageDrawn ==
  completed # Null => (Stamped <=> ImageCells # {})

-----------------------------------------------------------------------------
(* React: a state update re-renders, and the effects whose dependencies     *)
(* changed run after the render.  A render is the record Current describes; *)
(* ch tells which of the array and object dependencies are new values       *)
(* (compared by identity), the primitive ones are compared by value.        *)

\* getRecommendedTemplate of the template effect (Home.tsx 48-72).
RecommendedCounts == <<1, 2, 3, 4, 6, 9>>

RecommendedFor(count) ==
  CASE count = 1 -> Template("1x1", 1, 1, "grid")
    [] count = 2 -> Template("2x1", 1, 2, "grid")
    [] count = 3 -> Template("3x1", 1, 3, "grid")
    [] count = 4 -> Template("2x2", 2, 2, "grid")
    [] count = 6 -> Template("3x2", 2, 3, "grid")
    [] count = 9 -> Template("3x3", 3, 3, "grid")

getRecommendedTemplate(count) ==
  IF count \in Range(RecommendedCounts) THEN RecommendedFor(count)
  ELSE LET larger == { k \in 1 .. Len(RecommendedCounts) :
                         RecommendedCounts[k] >= count }
       IN IF larger # {}
            THEN RecommendedFor(
                   RecommendedCounts[CHOOSE k \in larger : \A j \in larger : k <= j])
            ELSE RecommendedFor(9)

\* The updater of the reconciliation effect (PhotoCollage.tsx 76-86), and
\* one that builds the transforms from scratch.
ReconciledFromScratch(images, prevTransforms) ==
  [k \in 1 .. Len(images) |-> DefaultTransform]

Reconciled(images, prevTransforms) ==
  [k \in 1 .. Len(images) |->
     IF HasTransform(prevTransforms, k - 1) THEN prevTransforms[k]
     ELSE DefaultTransform]

\* The thumbnails a render shows: images.slice(0, totalSlots) (608).
Thumbnails(r) == Min(Len(r.images), totalSlots(r.template))

\* The thumbnail a drag started on is not among images.slice(0, totalSlots)
\* of render r (608-612): React has removed its element, and the dragend of
\* the drag reaches no handler.  Next to it, a page whose thumbnails all
\* stay.
UnmountedNever(r) == FALSE

Unmounted(r) == r.source # Null /\ Val(r.source) >= Thumbnails(r)

\* selectedImageIndex !== null && selectedImageIndex >= images.length (89),
\* and a test that never finds the selection out of bounds.
OutOfBoundsNever(r) == FALSE

OutOfBounds(r) == r.selected # Null /\ Val(r.selected) >= Len(r.images)

\* The effects of render r, which follows render prev, and of the renders
\* their state updates cause: the state when nothing is left to run.
RECURSIVE Effects(_, _, _)
Effects(r, prev, ch) ==
  LET lengthChanged == Len(r.images) # Len(prev.images)
      reconcile == lengthChanged \/ r.selected # prev.selected
      deselect == reconcile /\ OutOfBounds(r)
      redraw == \/ ch.images \/ ch.template \/ ch.transforms
                \/ r.aspectRatio # prev.aspectRatio
                \/ r.resolution # prev.resolution
                \/ r.filter # prev.filter
      recommend == /\ lengthChanged \/ ch.template
                   /\ Len(r.images) > 0
                   /\ Len(r.images) > totalSlots(r.template)
      \* a thumbnail that is no longer rendered takes its drag with it
      shown == [r EXCEPT !.source = IF Unmounted(r) THEN Null ELSE @]
      drawn == IF redraw THEN drawCollage(shown) ELSE shown
      next == [drawn EXCEPT
                 !.transforms = IF reconcile THEN Reconciled(r.images, @) ELSE @,
                 !.selected = IF deselect THEN Null ELSE @,
                 !.template = IF recommend
                                THEN getRecommendedTemplate(Len(r.images)) ELSE @]
  IN IF reconcile \/ recommend
       THEN Effects(next, r, [images |-> FALSE, template |-> recommend,
                              transforms |-> reconcile])
       ELSE drawn

Changed(images, template, transforms) ==
  [images |-> images, template |-> template, transforms |-> transforms]

\* The state updates of an event handler lead to render r; the program's
\* state once that render and its effects are through.
Commit(r, ch) ==
  \E end \in { Effects(r, Current, ch) } :
     /\ uploadedImages' = end.images
     /\ selectedTemplate' = end.template
     /\ aspectRatio' = end.aspectRatio
     /\ resolution' = end.resolution
     /\ selectedFilter' = end.filter
     /\ imageTransforms' = end.transforms
     /\ selectedImageIndex' = end.selected
     /\ dragSource' = end.source
     /\ canvas' = end.canvas
     /\ passes' = end.passes
     /\ completed' = end.completed

commitVars == <<uploadedImages, selectedTemplate, aspectRatio, resolution,
                selectedFilter, imageTransforms, selectedImageIndex, dragSource,
                canvas, passes, completed>>

-----------------------------------------------------------------------------
(* Spec: the page from its mount on, one action per event handler *)

MaxImages == 3
MaxBatch == 2
MaxBatches == 1
MaxPending == 0

\* Events arrive while at most MaxPending redraws wait for their images.
Idle == Len(passes) <= MaxPending

\* The files the user picks from: image files, whose data URL stands for
\* the file, and a file that is not an image.
ImageFiles == Range(SubSeq(FileNames, 1, MaxImages))
OtherFiles == {"n1"}

\* file.type.startsWith('image/') (ImageUploader.tsx 37)
IsImageFile(f) == f \in ImageFiles

\* An image file is in use while it is uploaded or being read.
InUse(f) ==
  \/ f \in Range(uploadedImages)
  \/ \E b \in 1 .. Len(batches) : f \in Range(batches[b].files)

\* The image files that are not in use, in the order of their names.  Which
\* of the files the user picks makes no difference, so it is the first ones.
RECURSIVE Unused(_)
Unused(k) ==
  IF k > MaxImages THEN <<>>
  ELSE (IF InUse(FileNames[k]) THEN <<>> ELSE <<FileNames[k]>>) \o Unused(k + 1)

\* The FileLists the user picks: up to MaxBatch image files, and possibly a
\* file that is not an image after them.
FileLists ==
  { SubSeq(Unused(1), 1, n) \o other :
      n \in 0 .. Min(MaxBatch, Len(Unused(1))),
      other \in { <<>> } \cup { <<f>> : f \in OtherFiles } } \ { <<>> }

\* The page after its first render and its effects, which redraw the empty
\* collage.
Mounted ==
  drawCollage([images |-> <<>>, template |-> InitialTemplate,
               aspectRatio |-> InitialAspectRatio,
               resolution |-> InitialResolution, filter |-> InitialFilter,
               transforms |-> <<>>, selected |-> Null, source |-> Null,
               canvas |-> BlankCanvas, passes |-> <<>>, completed |-> Null])

Init ==
  /\ HomeMounted
  /\ CollageMounted
  /\ canvasOffset = InitialCanvasOffset
  /\ NoResults
  /\ NoEvents
  /\ canvas = Mounted.canvas
  /\ passes = Mounted.passes
  /\ completed = Mounted.completed

\* handleFiles (ImageUploader.tsx 32-53) up to the start of the reads.  The
\* callbacks of the readers share newImages and loadedCount and keep the
\* uploadedImages of the render the handler belongs to.
SelectFiles ==
  \E files \in FileLists :
    /\ Idle
    /\ Len(batches) < MaxBatches
    /\ LET reading == { k \in 1 .. Len(files) : IsImageFile(files[k]) }
       IN batches' =
            IF reading = {} THEN batches
            ELSE Append(batches,
                        [uploadedImages |-> uploadedImages, files |-> files,
                         newImages |-> <<>>, loadedCount |-> 0,
                         reading |-> reading])
    /\ lastEvent' = Null
    /\ UNCHANGED <<commitVars, dragIndex, dropIndex, dragState, canvasOffset,
                   resultVars>>

\* reader.onload (ImageUploader.tsx 39-48) of one file of one batch.
ReaderLoad ==
  \E b \in 1 .. Len(batches) :
    \E k \in batches[b].reading :
      LET batch == [batches[b] EXCEPT !.newImages = Append(@, batches[b].files[k]),
                                      !.loadedCount = @ + 1,
                                      !.reading = @ \ {k}]
      IN /\ Idle
         /\ batches' =
              IF batch.reading = {}
                THEN SubSeq(batches, 1, b - 1) \o SubSeq(batches, b + 1, Len(batches))
                ELSE [batches EXCEPT ![b] = batch]
         /\ IF batch.loadedCount = Len(batch.files)
              THEN Commit([Current EXCEPT
                             !.images = batch.uploadedImages \o batch.newImages],
                          Changed(TRUE, FALSE, FALSE))
              ELSE UNCHANGED commitVars
         /\ lastEvent' = Null
         /\ UNCHANGED <<dragIndex, dropIndex, dragState, canvasOffset, resultVars>>

\* uploadedImages.filter((_, i) => i !== index)
Filtered(images, index) ==
  SubSeq(images, 1, index) \o SubSeq(images, index + 2, Len(images))

\* handleRemoveImage (ImageUploader.tsx 100-103)
RemoveImage ==
  \E index \in 0 .. Len(uploadedImages) - 1 :
    /\ Idle
    /\ Commit([Current EXCEPT !.images = Filtered(uploadedImages, index)],
              Changed(TRUE, FALSE, FALSE))
    /\ lastEvent' = Some([event |-> "remove",
                          deselected |-> selectedImageIndex # Null
                                           /\ Val(selectedImageIndex)
                                                >= Len(uploadedImages) - 1])
    /\ UNCHANGED <<dragIndex, dropIndex, dragState, canvasOffset, batches,
                   resultVars>>

\* handleClearAll (ImageUploader.tsx 108-111)
ClearAll ==
  /\ Idle
  /\ Len(uploadedImages) > 0
  /\ Commit([Current EXCEPT !.images = <<>>], Changed(TRUE, FALSE, FALSE))
  /\ lastEvent' = Null
  /\ UNCHANGED <<dragIndex, dropIndex, dragState, canvasOffset, batches,
                 resultVars>>

\* Pass k runs to its end: its awaits settle one after the other.
RECURSIVE RunPass(_, _, _, _)
RunPass(cv, ps, done, k) ==
  LET r == Settle(cv, ps, done, k)
  IN IF Len(r.passes) < Len(ps) THEN r
     ELSE RunPass(r.canvas, r.passes, r.completed, k)

\* The canvas and the last finished pass once all the passes ps have run to
\* their end, for every order in which they can finish.
RECURSIVE Outcomes(_, _, _)
Outcomes(cv, ps, done) ==
  IF ps = <<>> THEN { [canvas |-> cv, completed |-> done] }
  ELSE UNION { LET r == RunPass(cv, ps, done, k)
               IN Outcomes(r.canvas, r.passes, r.completed) :
               k \in 1 .. Len(ps) }

\* The images of all awaiting passes settle before the next event arrives.
\* The draws of a pass are one uninterrupted step, so what the passes leave
\* behind depends on the order in which they finish only.
PassesFinish ==
  /\ passes # <<>>
  /\ \E r \in Outcomes(canvas, passes, completed) :
       /\ canvas' = r.canvas
       /\ completed' = r.completed
  /\ passes' = <<>>
  /\ UNCHANGED <<homeVars, collageVars, canvasOffset, resultVars, envVars>>

\* TemplateSelector: a click on one of the offered templates
\* (PuzzleBoard.tsx 743, 802; Home.tsx 173).
SelectTemplate ==
  \E t \in Range(generateTemplatesForCount(Len(uploadedImages))) :
    /\ Idle
    /\ Commit([Current EXCEPT !.template = t], Changed(FALSE, TRUE, FALSE))
    /\ lastEvent' = Null
    /\ UNCHANGED <<dragIndex, dropIndex, dragState, canvasOffset, batches,
                   resultVars>>

-----------------------------------------------------------------------------
(* Thumbnails (PhotoCollage.tsx 608-616): reorder by drag and drop, select  *)
(* by click.  The browser sends dragend to the thumbnail the drag started   *)
(* on, so handleDragEnd runs only while that thumbnail is rendered.         *)

\* onDragStart: handleDragStart (360-362)
ThumbDragStart ==
  \E index \in 0 .. Thumbnails(Current) - 1 :
    /\ Idle
    /\ dragIndex' = Some(index)
    /\ dragSource' = Some(index)
    /\ lastEvent' = Some([event |-> "dragstart"])
    /\ UNCHANGED <<homeVars, dropIndex, imageTransforms, selectedImageIndex,
                   dragState, canvasOffset, renderVars, batches, resultVars>>

\* onDrop: setDropIndex(index); the drop of any drag, also one that did not
\* start on a thumbnail.
ThumbDrop ==
  \E index \in 0 .. Thumbnails(Current) - 1 :
    /\ Idle
    /\ dropIndex' = Some(index)
    /\ lastEvent' = IF dragIndex # Null /\ ~HasIndex(uploadedImages, Val(dragIndex))
                      THEN Some([event |-> "drop"]) ELSE Null
    /\ UNCHANGED <<homeVars, dragIndex, imageTransforms, selectedImageIndex,
                   dragState, dragSource, canvasOffset, renderVars, batches,
                   resultVars>>

\* A reorder that exchanges the entries at from and to.
SplicedSwap(s, from, to, undefined) ==
  IF HasIndex(s, from) /\ HasIndex(s, to)
    THEN [s EXCEPT ![from + 1] = s[to + 1], ![to + 1] = s[from + 1]]
    ELSE s

\* const [dragged] = copy.splice(from, 1); copy.splice(to, 0, dragged)
Spliced(s, from, to, undefined) ==
  SpliceInsert(SpliceRemove(s, from), to,
               IF HasIndex(s, from) THEN At(s, from) ELSE undefined)

\* onDragEnd: handleDragEnd (367-382)
ThumbDragEnd ==
  /\ Idle
  /\ dragSource # Null
  /\ IF dragIndex # Null /\ dropIndex # Null /\ dragIndex # dropIndex
       THEN /\ Commit([Current EXCEPT
                         !.images = Spliced(uploadedImages, Val(dragIndex),
                                           Val(dropIndex), "undefined"),
                         !.transforms = Spliced(imageTransforms, Val(dragIndex),
                                               Val(dropIndex), Undefined),
                         !.source = Null],
                      Changed(TRUE, FALSE, TRUE))
            /\ lastEvent' = Some([event |-> "reorder", from |-> Val(dragIndex),
                                  to |-> Val(dropIndex),
                                  images |-> uploadedImages])
       ELSE /\ Commit([Current EXCEPT !.source = Null],
                      Changed(FALSE, FALSE, FALSE))
            /\ lastEvent' = Null
  /\ dragIndex' = Null
  /\ dropIndex' = Null
  /\ UNCHANGED <<dragState, canvasOffset, batches, resultVars>>

\* onClick: setSelectedImageIndex(selectedImageIndex === index ? null : index)
ThumbClick ==
  \E index \in 0 .. Thumbnails(Current) - 1 :
    /\ Idle
    /\ Commit([Current EXCEPT
                 !.selected = IF @ = Some(index) THEN Null ELSE Some(index)],
              Changed(FALSE, FALSE, FALSE))
    /\ lastEvent' = Null
    /\ UNCHANGED <<dragIndex, dropIndex, dragState, canvasOffset, batches,
                   resultVars>>

\* The same click while redraws still wait for their images.
MaxEarly == 1

ThumbClickEarly ==
  \E index \in 0 .. Thumbnails(Current) - 1 :
    /\ ~Idle
    /\ Len(passes) <= MaxEarly
    /\ Commit([Current EXCEPT
                 !.selected = IF @ = Some(index) THEN Null ELSE Some(index)],
              Changed(FALSE, FALSE, FALSE))
    /\ lastEvent' = Null
    /\ UNCHANGED <<dragIndex, dropIndex, dragState, canvasOffset, batches,
                   resultVars>>

-----------------------------------------------------------------------------
(* Transform edits: canvas drag (448-537), sliders and reset (649-696) *)

\* { ...t, ...transform } (389)
Merged(t, transform) ==
  [f \in (IF t = Undefined THEN {} ELSE DOMAIN t) \cup DOMAIN transform |->
     IF f \in DOMAIN transform THEN transform[f] ELSE t[f]]

\* The updater of updateImageTransform without the test of the index.
updateImageTransformAll(transforms, index, transform) ==
  [k \in 1 .. Len(transforms) |-> Merged(transforms[k], transform)]

\* The updater of updateImageTransform (387-391).
updateImageTransform(transforms, index, transform) ==
  [k \in 1 .. Len(transforms) |->
     IF k - 1 = index THEN Merged(transforms[k], transform) ELSE transforms[k]]

\* The value of <input type="range" min max> for a requested value, in
\* steps: below min it is min, above max it is max.
RangeInputUnclamped(min, max, raw) == raw

RangeInput(min, max, raw) == Max(min, Min(max, raw))

\* const maxOffset = 100 (482), in half pixels.
maxOffset == 200

\* Math.max(-maxOffset, Math.min(maxOffset, v)) (483-484), and the offset
\* of a move without that limit.
ClampOffsetNone(v) == v

ClampOffset(v) == Max(0 - maxOffset, Min(maxOffset, v))

\* The points of the displayed canvas the pointer is pressed or moved at.
Points == { [x |-> 50, y |-> 150], [x |-> 250, y |-> 150] }

\* The values asked of the sliders: pixels for x and y, tenths for scale.
SliderXInputs == {60}
SliderYInputs == {-60}
SliderScaleInputs == {30}

\* The panel of the selected image is rendered (643).
PanelShown ==
  selectedImageIndex # Null /\ HasTransform(imageTransforms, Val(selectedImageIndex))

\* No cell that has an image contains the point pt of the displayed canvas.
Miss(pt) ==
  \A row \in 0 .. selectedTemplate.rows - 1,
     col \in 0 .. selectedTemplate.cols - 1 :
    LET size == Pixels(calculateOutputSize(aspectRatio, resolution))
        at == [xn |-> pt.x, xd |-> 1, yn |-> pt.y, yd |-> 1]
    IN \/ row * selectedTemplate.cols + col >= Len(uploadedImages)
       \/ ~InColumn(at, size, selectedTemplate, canvasOffset, col)
       \/ ~InRow(at, size, selectedTemplate, canvasOffset, row)

\* A point of the displayed canvas in which no cell lies: in the padding.
MissPoints == { [x |-> 2, y |-> 150] }

\* handleCanvasDragStart (448-465) for the pointer at pt; canvasRect is the
\* rectangle of the canvas, whose origin the points are relative to.
PointerDownAt(pt) ==
  LET size == Pixels(calculateOutputSize(aspectRatio, resolution))
      imageIndex == getImageIndexAtPosition(
                      [xn |-> pt.x, xd |-> 1, yn |-> pt.y, yd |-> 1], size,
                      selectedTemplate, Len(uploadedImages), canvasOffset)
  IN /\ Idle
     /\ IF imageIndex >= 0 /\ HasTransform(imageTransforms, imageIndex)
          THEN /\ dragState' =
                    Some([isDragging |-> TRUE, imageIndex |-> imageIndex,
                          startX |-> pt.x, startY |-> pt.y,
                          initialTransform |-> At(imageTransforms, imageIndex)])
               /\ Commit([Current EXCEPT !.selected = Some(imageIndex)],
                         Changed(FALSE, FALSE, FALSE))
          ELSE UNCHANGED <<dragState, commitVars>>
     /\ lastEvent' = Some([event |-> "down", x |-> pt.x, index |-> imageIndex])
     /\ UNCHANGED <<dragIndex, dropIndex, canvasOffset, batches, resultVars>>

\* onMouseDown, onTouchStart on a point of a cell
PointerDown ==
  \E pt \in Points :
    /\ pt \in Points
    /\ PointerDownAt(pt)

\* onMouseDown, onTouchStart on a point outside the cells
PointerDownOutside ==
  \E pt \in MissPoints :
    /\ Miss(pt)
    /\ PointerDownAt(pt)

\* handleCanvasDragMove (470-490) for the pointer at pt
PointerMoveAt(pt) ==
  /\ Idle
  /\ dragState # Null /\ Val(dragState).isDragging
  /\ LET drag == Val(dragState)
         newX == drag.initialTransform.x + (pt.x - drag.startX)
         newY == drag.initialTransform.y + (pt.y - drag.startY)
     IN Commit([Current EXCEPT
                  !.transforms = updateImageTransform(
                     @, drag.imageIndex,
                     [x |-> ClampOffset(newX), y |-> ClampOffset(newY)])],
               Changed(FALSE, FALSE, TRUE))
  /\ lastEvent' = Some([event |-> "move"])
  /\ UNCHANGED <<dragIndex, dropIndex, dragState, canvasOffset, batches,
                 resultVars>>

\* onMouseMove, onTouchMove
PointerMove ==
  \E pt \in Points :
    /\ dragState # Null
    /\ PointerMoveAt(pt)

\* onMouseUp, onMouseLeave, onTouchEnd: handleCanvasDragEnd (495-497)
PointerUp ==
  /\ Idle
  /\ dragState' = Null
  /\ lastEvent' = Null
  /\ UNCHANGED <<commitVars, dragIndex, dropIndex, canvasOffset, batches,
                 resultVars>>

\* touchcancel while a touch drags an image: the canvas binds no handler to
\* it (582-588), so nothing but the history changes.
TouchCancel ==
  /\ Idle
  /\ dragState # Null
  /\ lastEvent' = Some([event |-> "touchcancel"])
  /\ UNCHANGED <<commitVars, dragIndex, dropIndex, dragState, canvasOffset,
                 batches, resultVars>>

\* The render after updateImageTransform(selectedImageIndex, transform).
PanelEdit(transform) ==
  [Current EXCEPT
     !.transforms = updateImageTransform(@, Val(selectedImageIndex), transform)]

\* The x slider (661-667): min -50, max 50.
SliderX ==
  \E raw \in SliderXInputs :
    /\ Idle
    /\ PanelShown
    /\ Commit(PanelEdit([x |-> 2 * RangeInput(-50, 50, raw)]),
              Changed(FALSE, FALSE, TRUE))
    /\ lastEvent' = Some([event |-> "x", raw |-> raw])
    /\ UNCHANGED <<dragIndex, dropIndex, dragState, canvasOffset, batches,
                   resultVars>>

\* The y slider (669-675): min -50, max 50.
SliderY ==
  \E raw \in SliderYInputs :
    /\ Idle
    /\ PanelShown
    /\ Commit(PanelEdit([y |-> 2 * RangeInput(-50, 50, raw)]),
              Changed(FALSE, FALSE, TRUE))
    /\ lastEvent' = Some([event |-> "y", raw |-> raw])
    /\ UNCHANGED <<dragIndex, dropIndex, dragState, canvasOffset, batches,
                   resultVars>>

\* The scale slider (688-696): min 0.5, max 2, step 0.1.
SliderScale ==
  \E raw \in SliderScaleInputs :
    /\ Idle
    /\ PanelShown
    /\ Commit(PanelEdit([scale |-> RangeInput(5, 20, raw)]),
              Changed(FALSE, FALSE, TRUE))
    /\ lastEvent' = Some([event |-> "scale", raw |-> raw])
    /\ UNCHANGED <<dragIndex, dropIndex, dragState, canvasOffset, batches,
                   resultVars>>

\* Whether the last event was a reset of the image at index.
WasReset(index) ==
  /\ lastEvent # Null
  /\ Val(lastEvent).event = "reset"
  /\ Val(lastEvent).index = index

\* The reset button (649): resetImageTransform (397-399).  The history keeps
\* the transform from before the first of the resets that follow each other.
Reset ==
  /\ Idle
  /\ PanelShown
  /\ Commit(PanelEdit(DefaultTransform), Changed(FALSE, FALSE, TRUE))
  /\ LET index == Val(selectedImageIndex)
     IN lastEvent' =
          IF WasReset(index)
            THEN Some([Val(lastEvent) EXCEPT !.times = 2])
            ELSE Some([event |-> "reset", index |-> index, times |-> 1,
                       before |-> At(imageTransforms, index)])
  /\ UNCHANGED <<dragIndex, dropIndex, dragState, canvasOffset, batches,
                 resultVars>>

-----------------------------------------------------------------------------
(* Presets (PresetManager.tsx, Home.tsx 95-100) and download (105-118) *)

\* The presets in localStorage: configurations saved earlier.
PresetTemplates ==
  {Template("1x1", 1, 1, "grid"), Template("2x1", 1, 2, "grid")}
PresetAspects == { <<"1", ":", "1">>, <<"4", ":", "3">> }
PresetResolutions == {720, 1080}
PresetFilters == {"none", "vintage"}
Presets ==
  [template : PresetTemplates, aspectRatio : PresetAspects,
   resolution : PresetResolutions, filter : PresetFilters]

\* The four set-state calls of handleLoadPreset, which React applies in one
\* render.  The template of a preset is an object of its own.
handleLoadPreset(r, preset) ==
  [r EXCEPT !.template = preset.template,
            !.aspectRatio = preset.aspectRatio,
            !.resolution = preset.resolution,
            !.filter = preset.filter]

\* loadPreset (PresetManager.tsx 82-98): a click on a saved preset.
LoadPreset ==
  \E preset \in Presets :
    /\ Idle
    /\ Commit(handleLoadPreset(Current, preset), Changed(FALSE, TRUE, FALSE))
    /\ lastEvent' = Some([event |-> "preset", preset |-> preset])
    /\ UNCHANGED <<dragIndex, dropIndex, dragState, canvasOffset, batches,
                   resultVars>>

\* hasEnoughImages (Home.tsx 117-118); the download button is disabled
\* without it (213).
hasEnoughImages(images, template) == Len(images) >= totalSlots(template)

\* handleDownload without its test of the number of images.
handleDownloadAlways(images, cv) == Some([href |-> cv])

\* handleDownload (Home.tsx 105-115): the file the link downloads, if any.
handleDownload(images, cv) ==
  IF Len(images) > 0 THEN Some([href |-> cv]) ELSE Null

\* The download handler runs.
Download ==
  /\ Idle
  /\ lastEvent' =
       Some([event |-> "download",
             disabled |-> ~hasEnoughImages(uploadedImages, selectedTemplate),
             file |-> handleDownload(uploadedImages, canvas)])
  /\ UNCHANGED <<homeVars, collageVars, canvasOffset, renderVars, resultVars,
                 batches, dragSource>>

-----------------------------------------------------------------------------
Next ==
  \/ SelectFiles \/ ReaderLoad \/ RemoveImage \/ ClearAll \/ SelectTemplate
  \/ ThumbDragStart \/ ThumbDrop \/ ThumbDragEnd \/ ThumbClick
  \/ PointerDown \/ PointerMove \/ PointerUp \/ TouchCancel
  \/ SliderX \/ SliderY \/ SliderScale \/ Reset
  \/ LoadPreset \/ Download \/ ThumbClickEarly \/ PointerDownOutside
  \/ ImageSettles

Spec == Init /\ [][Next]_vars

-----------------------------------------------------------------------------
(* SpecOrder: uploads, removals and thumbnail reorders, with the x slider   *)
(* as the one edit that tells the transforms apart                          *)

OrderNext ==
  \/ SelectFiles \/ ReaderLoad \/ RemoveImage \/ ClearAll
  \/ ThumbDragStart \/ ThumbDrop \/ ThumbDragEnd \/ ThumbClick
  \/ SliderX
  \/ PassesFinish

SpecOrder == Init /\ [][OrderNext]_vars

-----------------------------------------------------------------------------
(* SpecEdit: transform edits of a page that holds uploaded images *)

MaxEditImages == 2

\* The page after the upload of n image files in one batch, all redraws done.
EditInit ==
  \E n \in 1 .. MaxEditImages :
    \E r \in { Effects([Mounted EXCEPT !.images = SubSeq(FileNames, 1, n)],
                       Mounted, Changed(TRUE, FALSE, FALSE)) } :
      /\ uploadedImages = r.images
      /\ selectedTemplate = r.template
      /\ aspectRatio = r.aspectRatio
      /\ resolution = r.resolution
      /\ selectedFilter = r.filter
      /\ imageTransforms = r.transforms
      /\ selectedImageIndex = r.selected
      /\ \E o \in Outcomes(r.canvas, r.passes, r.completed) :
           canvas = o.canvas /\ completed = o.completed
      /\ passes = <<>>
      /\ dragIndex = Null /\ dropIndex = Null /\ dragState = Null
      /\ canvasOffset = InitialCanvasOffset
      /\ NoResults
      /\ NoEvents

EditNext ==
  \/ ThumbClick
  \/ PointerDown \/ PointerMove \/ PointerUp \/ TouchCancel
  \/ SliderX \/ SliderY \/ SliderScale \/ Reset
  \/ PassesFinish

SpecEdit == EditInit /\ [][EditNext]_vars

-----------------------------------------------------------------------------
\* Transform edits, checked under SpecEdit.

\* The range an offset (half pixels) and a scale (tenths) are kept in.
OffsetRange == -200 .. 200
ScaleRange == 5 .. 20

\* C3: after any edit of a transform, by a slider or by a drag on the
\* canvas, every stored transform has x and y within [-100, 100] pixels and
\* scale within [0.5, 2.0]; a write of scale 3.0 stores 2.0.
C3_TransformsClamped ==
  /\ \A k \in 1 .. Len(imageTransforms) :
       /\ DOMAIN imageTransforms[k] = {"x", "y", "scale"}
       /\ imageTransforms[k].x \in OffsetRange
       /\ imageTransforms[k].y \in OffsetRange
       /\ imageTransforms[k].scale \in ScaleRange
  /\ (lastEvent # Null /\ Val(lastEvent).event = "scale")
       => /\ selectedImageIndex # Null
          /\ At(imageTransforms, Val(selectedImageIndex)).scale
               = Min(Max(Val(lastEvent).raw, 5), 20)

\* C3 happens: a drag that started at x = 50 px has been moved past the
\* limit and left x at 100 px, and then scale 3.0 was written and 2.0 stored.
C3_Witness ==
  /\ lastEvent = Some([event |-> "scale", raw |-> 30])
  /\ dragState # Null
  /\ Val(dragState).initialTransform.x = 100
  /\ Val(dragState).imageIndex = Val(selectedImageIndex)
  /\ At(imageTransforms, Val(selectedImageIndex)).x = 200
  /\ At(imageTransforms, Val(selectedImageIndex)).scale = 20

\* C4: a reset sets the selected image's transform to {x: 0, y: 0, scale: 1}
\* and leaves every other transform as it was; a second reset right after
\* the first changes nothing.
C4_ResetRestoresDefault ==
  [][Reset =>
       /\ Len(imageTransforms') = Len(imageTransforms)
       /\ \A k \in 1 .. Len(imageTransforms) :
            imageTransforms'[k] =
              IF k - 1 = Val(selectedImageIndex)
                THEN [x |-> 0, y |-> 0, scale |-> 10]
                ELSE imageTransforms[k]
       /\ WasReset(Val(selectedImageIndex))
            => imageTransforms' = imageTransforms]_vars

\* C4 happens: an edited image was reset twice in a row while the other
\* image keeps its edit.
C4_Witness ==
  /\ Len(imageTransforms) = 2
  /\ lastEvent # Null
  /\ Val(lastEvent).event = "reset"
  /\ Val(lastEvent).times = 2
  /\ Val(lastEvent).before.x # 0
  /\ Val(lastEvent).before.scale # 10
  /\ At(imageTransforms, Val(lastEvent).index) = DefaultTransform
  /\ At(imageTransforms, 1 - Val(lastEvent).index).x # 0

\* C18 as claimed: while a canvas drag is active a further pointer-down or
\* touch-start is ignored: the drag's target index, origin and origin
\* transform stay as they are.
C18_SecondPointerDownIgnored ==
  [][(dragState # Null /\ PointerDown) => dragState' = dragState]_vars

\* C19 as claimed: from a canvas drag, each of mouse-up, mouse-leave,
\* touch-end and touch-cancel destroys the drag state, so that no pointer
\* move changes a transform before a new pointer-down hits an image.
C19_GestureEndDestroysDrag ==
  [][(dragState # Null /\ (PointerUp \/ TouchCancel))
       => dragState' = Null]_vars

\* The limit of an offset, in half pixels: [-100, 100] pixels.
Limited(v) == IF v < -200 THEN -200 ELSE IF v > 200 THEN 200 ELSE v

\* C22: during a canvas drag of image k from (startX, startY) with origin
\* transform o, a move to (x, y) sets transform[k].x to
\* clamp(o.x + (x - startX) * 0.5, -100, 100), y likewise, and leaves the
\* scale of k, every other transform, the images and the drag unchanged.
C22_DragMoveSetsOffset ==
  [][\A pt \in Points :
       PointerMoveAt(pt) =>
         LET k == Val(dragState).imageIndex
             o == Val(dragState).initialTransform
         IN /\ Len(imageTransforms') = Len(imageTransforms)
            /\ \A j \in 1 .. Len(imageTransforms) :
                 imageTransforms'[j] =
                   IF j - 1 = k
                     THEN [x |-> Limited(o.x + (pt.x - Val(dragState).startX)),
                           y |-> Limited(o.y + (pt.y - Val(dragState).startY)),
                           scale |-> imageTransforms[j].scale]
                     ELSE imageTransforms[j]
            /\ uploadedImages' = uploadedImages
            /\ dragState' = dragState]_vars

\* C22 happens: image k, scaled to 2.0 and at x = 50 px when the drag
\* started, was moved by 100 px towards the right, which the limit cuts to
\* x = 100 px, while the other image keeps its own offset.
C22_Witness ==
  /\ lastEvent = Some([event |-> "move"])
  /\ dragState # Null
  /\ Len(imageTransforms) = 2
  /\ Val(dragState).initialTransform = [x |-> 100, y |-> 0, scale |-> 20]
  /\ At(imageTransforms, Val(dragState).imageIndex)
       = [x |-> 200, y |-> 0, scale |-> 20]
  /\ At(imageTransforms, 1 - Val(dragState).imageIndex).y = -100

-----------------------------------------------------------------------------
(* SpecSelect: selections by thumbnail click, also while a redraw waits,    *)
(* and by pointer-down on the canvas                                        *)

SelectNext ==
  \/ ThumbClick \/ ThumbClickEarly \/ PointerDown \/ PointerUp
  \/ PassesFinish

SpecSelect == EditInit /\ [][SelectNext]_vars

\* The drawing operations on cell c since the canvas was cleared last.
OnCell(c) ==
  { j \in 1 .. Len(canvas.ops) :
      /\ canvas.ops[j].op \in {"image", "placeholder", "outline"}
      /\ canvas.ops[j].cell = c }

\* The canvas shows the selection outline on cell c: the last thing drawn
\* on the cell is the outline.
Outlined(c) ==
  \E j \in OnCell(c) :
    /\ canvas.ops[j].op = "outline"
    /\ \A i \in OnCell(c) : i <= j

\* C25 as claimed: whenever no event or render is pending, the selection
\* outline on the canvas is on exactly the cell of the selected index, and
\* on no cell when nothing is selected.
C25_OutlineOnSelectedCell ==
  passes = <<>> =>
    \A c \in 0 .. totalSlots(selectedTemplate) - 1 :
      Outlined(c) <=> selectedImageIndex = Some(c)

-----------------------------------------------------------------------------
\* Order of the images and their transforms, checked under SpecOrder.

\* The sequence old with its entry at index i moved to index j (0-based),
\* the entries between the two shifted by one towards i.
MovedTo(old, i, j) ==
  [k \in 1 .. Len(old) |->
     IF k - 1 = j THEN old[i + 1]
     ELSE IF i <= k - 1 /\ k - 1 < j THEN old[k + 1]
     ELSE IF j < k - 1 /\ k - 1 <= i THEN old[k - 1]
     ELSE old[k]]

\* The images paired with the transforms at their positions.
Pairs(images, transforms) ==
  {<<images[k], transforms[k]>> : k \in DOMAIN images \cap DOMAIN transforms}

\* A thumbnail drag ends that started on one position of the sequence and
\* was dropped on another.
ReorderEnds ==
  /\ ThumbDragEnd
  /\ dragIndex # Null
  /\ dropIndex # Null
  /\ dragIndex # dropIndex
  /\ HasIndex(uploadedImages, Val(dragIndex))
  /\ HasIndex(uploadedImages, Val(dropIndex))

\* C1: a thumbnail drag from position i dropped on position j removes the
\* image from i and inserts it at j of the shortened sequence, does the same
\* to the transforms, and so keeps the multiset of images and the transform
\* of every image; [A, B, C] with A dragged to position 2 becomes [B, C, A].
C1_ReorderSplices ==
  [][ReorderEnds =>
       /\ uploadedImages' =
            MovedTo(uploadedImages, Val(dragIndex), Val(dropIndex))
       /\ imageTransforms' =
            MovedTo(imageTransforms, Val(dragIndex), Val(dropIndex))
       /\ Range(uploadedImages') = Range(uploadedImages)
       /\ Len(uploadedImages') = Len(uploadedImages)
       /\ Pairs(uploadedImages', imageTransforms')
            = Pairs(uploadedImages, imageTransforms)
       /\ (uploadedImages = <<"f1", "f2", "f3">> /\ dragIndex = Some(0)
             /\ dropIndex = Some(2))
            => uploadedImages' = <<"f2", "f3", "f1">>]_vars

\* C1 happens: [f1, f2, f3] with f1, whose x offset was set to 50 px, dragged
\* from position 0 to position 2.
C1_Witness ==
  /\ lastEvent = Some([event |-> "reorder", from |-> 0, to |-> 2,
                       images |-> <<"f1", "f2", "f3">>])
  /\ uploadedImages = <<"f2", "f3", "f1">>
  /\ Len(imageTransforms) = 3
  /\ imageTransforms[1] = DefaultTransform
  /\ imageTransforms[2] = DefaultTransform
  /\ imageTransforms[3] = [x |-> 100, y |-> 0, scale |-> 10]

\* The position (1-based) of image f in images.
PositionOf(images, f) == CHOOSE k \in 1 .. Len(images) : images[k] = f

\* The step follows an edit of the selected image, which is f.
EditOf(f) ==
  /\ uploadedImages' = uploadedImages
  /\ selectedImageIndex = Some(PositionOf(uploadedImages, f) - 1)
  /\ lastEvent' # Null
  /\ Val(lastEvent').event \in {"x", "y", "scale", "move", "reset"}

\* C2: the transform at index i belongs to the image at position i, after
\* any sequence of uploads, removals, reorders and edits: there is one
\* transform per image, an image that stays on the page keeps its transform
\* unless it is the one being edited, and an image that comes to the page
\* has the default transform.
C2_TransformBelongsToImage ==
  [][/\ Len(imageTransforms') = Len(uploadedImages')
     /\ \A f \in Range(uploadedImages') :
          LET new == imageTransforms'[PositionOf(uploadedImages', f)]
          IN IF f \in Range(uploadedImages)
               THEN \/ new = imageTransforms[PositionOf(uploadedImages, f)]
                    \/ EditOf(f)
               ELSE new = DefaultTransform]_vars

-----------------------------------------------------------------------------
\* Render passes of the page, checked under SpecOrder.

\* The canvas that pass p leaves when no other pass runs beside it.
Alone(p) ==
  RunPass(ClearedCanvas(p), <<[p EXCEPT !.next = 0, !.loaded = <<>>]>>,
          Null, 1).canvas

\* C13 as claimed: when a pass is started before an earlier one has finished,
\* no draw of the earlier pass reaches the canvas after that start, so once
\* all passes have finished the canvas shows what the pass started last
\* would produce alone.
C13_LastStartedPassWins ==
  [][(passes # <<>> /\ passes' = <<>>)
       => canvas' = Alone(passes[Len(passes)])]_vars

\* What the compositor draws from: images, layout, aspect ratio, resolution,
\* filter and transforms.
Drawable ==
  <<uploadedImages, selectedTemplate, aspectRatio, resolution, selectedFilter,
    imageTransforms>>

\* C14 as claimed: a single external mutation of images, layout, aspect
\* ratio, resolution, filter or a transform starts exactly one redraw.  The
\* redraws of a step are counted where each of them waits for an image: no
\* pass is waiting before the step and the sequence is not empty after it.
C14_OneRedrawPerMutation ==
  [][(passes = <<>> /\ uploadedImages' # <<>> /\ Drawable' # Drawable)
       => Len(passes') = 1]_vars

\* The thumbnail drag in progress has had no drop so far, or its drop was on
\* the position it started on.
NoDropElsewhere ==
  \/ lastEvent # Null /\ Val(lastEvent).event = "dragstart"
  \/ dropIndex = dragIndex

\* C20 as claimed: a thumbnail drag that is dropped on its own position, or
\* that ends without a drop during the drag, leaves the images and the
\* transforms unchanged and returns to Idle, whatever drag and drop events
\* came before the drag started.
C20_DragWithoutMoveChangesNothing ==
  [][(ThumbDragEnd /\ NoDropElsewhere)
       => /\ uploadedImages' = uploadedImages
          /\ imageTransforms' = imageTransforms
          /\ dragIndex' = Null
          /\ dropIndex' = Null]_vars

\* C23: in every settled state after any sequence of uploads, removals,
\* clear-all, reorders and selections the selected index is none or an index
\* of the image sequence.
C23_SelectionInBounds ==
  \/ selectedImageIndex = Null
  \/ /\ 0 <= Val(selectedImageIndex)
     /\ Val(selectedImageIndex) < Len(uploadedImages)

\* C23 happens: the last image of two was selected when an image was
\* removed, which left the selection beyond the sequence, and it was cleared.
C23_Witness ==
  /\ lastEvent = Some([event |-> "remove", deselected |-> TRUE])
  /\ Len(uploadedImages) = 1
  /\ selectedImageIndex = Null

\* C24: when the image sequence changes its length from n to m, the
\* transforms have length m afterwards, the entries below min(n, m) are the
\* ones that were there, and the entries from n to m - 1 are {0, 0, 1}.
C24_ReconciliationKeepsEntries ==
  [][Len(uploadedImages') # Len(uploadedImages) =>
       LET n == Len(uploadedImages)
           m == Len(uploadedImages')
       IN /\ Len(imageTransforms') = m
          /\ \A j \in 1 .. m :
               imageTransforms'[j] =
                 IF j <= n THEN imageTransforms[j]
                 ELSE [x |-> 0, y |-> 0, scale |-> 10]]_vars

\* C24 happens: one of three images was removed and the transforms are the
\* first two of before, of which the first is an edited one.
C24_Witness ==
  /\ lastEvent # Null /\ Val(lastEvent).event = "remove"
  /\ Len(uploadedImages) = 2
  /\ imageTransforms = <<[x |-> 100, y |-> 0, scale |-> 10], DefaultTransform>>

\* The last read of batch b ends in this step.
LastRead(b) ==
  /\ ReaderLoad
  /\ Cardinality(batches[b].reading) = 1
  /\ batches' = SubSeq(batches, 1, b - 1) \o SubSeq(batches, b + 1, Len(batches))

\* The image files of batch b in the order in which their reads end, the
\* one that is still read being last.
ReadImages(b) ==
  batches[b].newImages
    \o << batches[b].files[CHOOSE k \in batches[b].reading : TRUE] >>

\* C29: a batch of image files whose reads have all ended appends its
\* images to the sequence as it is then, so that removals, reorders and
\* uploads that happened during the reads are kept.
C29_BatchAppendsToCurrent ==
  [][\A b \in 1 .. Len(batches) :
       (LastRead(b) /\ \A k \in 1 .. Len(batches[b].files) :
                         IsImageFile(batches[b].files[k]))
         => uploadedImages' = uploadedImages \o ReadImages(b)]_vars

\* C30: when the reads of a batch have all ended, every image file of the
\* batch is in the image sequence, whether or not the batch held files that
\* are not images.
C30_BatchImagesAppended ==
  [][\A b \in 1 .. Len(batches) :
       LastRead(b) =>
         \A k \in 1 .. Len(batches[b].files) :
           IsImageFile(batches[b].files[k])
             => \E j \in 1 .. Len(uploadedImages') :
                  uploadedImages'[j] = batches[b].files[k]]_vars

\* The source index of the thumbnail drag is not an index of the images.
SourceInvalid ==
  dragIndex # Null /\ ~HasIndex(uploadedImages, Val(dragIndex))

LastOf(q, n) == SubSeq(q, Len(q) - n + 1, Len(q))

\* The image files of a FileList in the order of their selection.
Selected(files) == SelectSeq(files, IsImageFile)

\* C16 as claimed: the images of an uploaded batch are appended to the
\* sequence in the order in which the files were selected, whatever the
\* order in which their reads complete.
C16_UploadKeepsSelectionOrder ==
  [][\A b \in 1 .. Len(batches) :
       (/\ batches' = SubSeq(batches, 1, b - 1)
                        \o SubSeq(batches, b + 1, Len(batches))
        /\ uploadedImages' # uploadedImages)
         => /\ Len(uploadedImages') >= Len(Selected(batches[b].files))
            /\ LastOf(uploadedImages', Len(Selected(batches[b].files)))
                 = Selected(batches[b].files)]_vars

-----------------------------------------------------------------------------
(* SpecConfig: presets, layout choice, removals and download on a page     *)
(* with up to MaxConfigImages images                                        *)

MaxConfigImages == 2

\* The page after the upload of the first n files, or as mounted.
Uploaded(n) ==
  IF n = 0 THEN Mounted
  ELSE Effects([Mounted EXCEPT !.images = SubSeq(FileNames, 1, n)],
               Mounted, Changed(TRUE, FALSE, FALSE))

ConfigInit ==
  \E n \in 0 .. MaxConfigImages :
    \E r \in { Uploaded(n) } :
      /\ uploadedImages = r.images
      /\ selectedTemplate = r.template
      /\ aspectRatio = r.aspectRatio
      /\ resolution = r.resolution
      /\ selectedFilter = r.filter
      /\ imageTransforms = r.transforms
      /\ selectedImageIndex = r.selected
      /\ \E o \in Outcomes(r.canvas, r.passes, r.completed) :
           canvas = o.canvas /\ completed = o.completed
      /\ passes = <<>>
      /\ dragIndex = Null /\ dropIndex = Null /\ dragState = Null
      /\ canvasOffset = InitialCanvasOffset
      /\ NoResults
      /\ NoEvents

ConfigNext ==
  \/ LoadPreset \/ SelectTemplate \/ RemoveImage \/ ClearAll \/ Download
  \/ PassesFinish

SpecConfig == ConfigInit /\ [][ConfigNext]_vars

\* The preset loaded last.
Loaded == Val(lastEvent).preset

\* C15 as claimed: once the load of a preset has settled, layout, aspect
\* ratio, resolution and filter are the four values of the preset, for every
\* number of uploaded images.
C15_PresetApplied ==
  (lastEvent # Null /\ Val(lastEvent).event = "preset") =>
    /\ selectedTemplate = Loaded.template
    /\ aspectRatio = Loaded.aspectRatio
    /\ resolution = Loaded.resolution
    /\ selectedFilter = Loaded.filter

\* C17: with zero uploaded images the download button is disabled and the
\* download handler produces no file.
C17_NoDownloadWithoutImages ==
  uploadedImages = <<>> =>
    /\ ~hasEnoughImages(uploadedImages, selectedTemplate)
    /\ (lastEvent # Null /\ Val(lastEvent).event = "download")
         => Val(lastEvent).disabled /\ Val(lastEvent).file = Null

\* C17 happens: the handler ran after the last image was removed.
C17_Witness ==
  /\ uploadedImages = <<>>
  /\ completed # Null /\ Val(completed).pass.images = <<>>
  /\ Len(canvas.ops) > 0
  /\ selectedTemplate = Template("2x1", 1, 2, "grid")
  /\ lastEvent # Null /\ Val(lastEvent).event = "download"
  /\ Val(lastEvent).file = Null

-----------------------------------------------------------------------------
(* SpecHit: pointer gestures on a canvas whose layout can have more cells   *)
(* than there are images                                                    *)

HitNext ==
  \/ PointerDown \/ PointerDownOutside \/ PointerMove \/ PointerUp
  \/ SelectTemplate \/ RemoveImage
  \/ PassesFinish

SpecHit == ConfigInit /\ [][HitNext]_vars

\* C21: a pointer or touch down whose hit test finds no image is a no-op:
\* drag state, selection and transforms stay as they are, and the controller
\* stays Idle when it was.
C21_MissIsNoOp ==
  [][\A pt \in Points \cup MissPoints :
       (PointerDownAt(pt) /\ Miss(pt))
         => /\ dragState' = dragState
            /\ selectedImageIndex' = selectedImageIndex
            /\ imageTransforms' = imageTransforms
            /\ uploadedImages' = uploadedImages
            /\ passes' = passes]_vars

\* C21 happens: the pointer went down on the second cell of a 2x1 layout
\* that has one image, which is selected and was dragged before.
C21_Witness ==
  /\ lastEvent = Some([event |-> "down", x |-> 250, index |-> -1])
  /\ Len(uploadedImages) = 1
  /\ totalSlots(selectedTemplate) = 2
  /\ selectedImageIndex = Some(0)
  /\ dragState = Null
  /\ imageTransforms = <<[x |-> 200, y |-> 0, scale |-> 10]>>

-----------------------------------------------------------------------------
(* workers-site/index.js: the worker that serves the built site.  A URL is  *)
(* the sequence of its characters, so that endsWith and includes are what   *)
(* they are in the code.                                                    *)

Scheme == <<"h", "t", "t", "p", "s", ":", "/", "/">>
IndexHtml == <<"i", "n", "d", "e", "x", ".", "h", "t", "m", "l">>

\* Host names: one without a dot (as localhost), one with a dot.
Hosts == { <<"l", "h">>, <<"a", ".", "b">> }

\* Paths: the root, a route, a route with a trailing slash, a file, the page.
RequestPaths ==
  { <<"/">>, <<"/", "r">>, <<"/", "r", "/">>, <<"/", "f", ".", "j">>,
    <<"/">> \o IndexHtml }

Methods == { "GET", "POST" }

\* The assets the site may hold.
AssetKeys == { <<"/">> \o IndexHtml, <<"/", "f", ".", "j">> }

\* event.request.url
Url(request) == Scheme \o request.host \o request.path

\* String.prototype.endsWith / includes for one character
endsWith(str, c) == Len(str) > 0 /\ str[Len(str)] = c
includes(str, c) == \E k \in 1 .. Len(str) : str[k] = c

\* The last segment of a path has a file extension.
HasExtension(path) ==
  \E k \in 1 .. Len(path) :
    /\ path[k] = "."
    /\ \A j \in k + 1 .. Len(path) : path[j] # "/"

\* mapRequestToAsset of @cloudflare/kv-asset-handler, the default of
\* getAssetFromKV: a directory or a path without a file type is asked for
\* its index.html.
mapRequestToAsset(path) ==
  IF endsWith(path, "/") THEN path \o IndexHtml
  ELSE IF ~HasExtension(path) THEN path \o <<"/">> \o IndexHtml
  ELSE path

\* req => new Request(`${new URL(req.url).origin}/index.html`, req) (26)
mapRequestToIndex(path) == <<"/">> \o IndexHtml

\* getAssetFromKV: the asset of the key, or the error it throws.  kvFails is
\* a failure of the KV store.
getAssetFromKV(request, store, key, kvFails) ==
  IF request.method # "GET" THEN [thrown |-> "MethodNotAllowedError"]
  ELSE IF kvFails THEN [thrown |-> "InternalError"]
  ELSE IF key \notin store THEN [thrown |-> "NotFoundError"]
  ELSE [status |-> 200, asset |-> key]

\* new Response('...', { status: 404 }) (20)
notFoundResponse == [status |-> 404, asset |-> <<>>]

\* event.request.url.endsWith('/') || !event.request.url.includes('.') (23),
\* and the same test on the path of the URL only.
IsRoutePath(request) ==
  endsWith(request.path, "/") \/ ~includes(request.path, ".")

IsRoute(request) ==
  endsWith(Url(request), "/") \/ ~includes(Url(request), ".")

\* addEventListener('fetch', ...) (7-9): a request arrives; handleEvent
\* starts with the first getAssetFromKV (17).
Fetch ==
  /\ worker = Null
  /\ \E host \in Hosts, path \in RequestPaths, method \in Methods,
        store \in SUBSET AssetKeys :
       worker' = Some([request |-> [host |-> host, path |-> path,
                                    method |-> method],
                       store |-> store, pc |-> "first", first |-> Null,
                       second |-> Null, response |-> Null])
  /\ UNCHANGED <<homeVars, collageVars, canvasOffset, renderVars, envVars,
                 outputSize, selectorSize, cellRects, hitIndex,
                 templateEffect>>

\* handleEvent 15-35: the first getAssetFromKV settles; its asset is
\* returned, or the catch block answers 404 or goes on to index.html.
FirstAsset ==
  /\ worker # Null
  /\ Val(worker).pc = "first"
  /\ \E kvFails \in BOOLEAN :
       LET w == Val(worker)
           got == getAssetFromKV(w.request, w.store,
                                 mapRequestToAsset(w.request.path), kvFails)
           thrown == "thrown" \in DOMAIN got
       IN worker' =
            Some(IF ~thrown
                   THEN [w EXCEPT !.pc = "done", !.first = Some("asset"),
                                  !.response = Some(got)]
                 ELSE IF IsRoute(w.request)
                   THEN [w EXCEPT !.pc = "fallback",
                                  !.first = Some(got.thrown)]
                 ELSE [w EXCEPT !.pc = "done", !.first = Some(got.thrown),
                                !.response = Some(notFoundResponse)])
  /\ UNCHANGED <<homeVars, collageVars, canvasOffset, renderVars, envVars,
                 outputSize, selectorSize, cellRects, hitIndex,
                 templateEffect>>

\* handleEvent 24-31: the getAssetFromKV for index.html settles.
FallbackAsset ==
  /\ worker # Null
  /\ Val(worker).pc = "fallback"
  /\ \E kvFails \in BOOLEAN :
       LET w == Val(worker)
           got == getAssetFromKV(w.request, w.store,
                                 mapRequestToIndex(w.request.path), kvFails)
           thrown == "thrown" \in DOMAIN got
       IN worker' =
            Some([w EXCEPT !.pc = "done",
                           !.second = Some(IF thrown THEN got.thrown
                                                     ELSE "asset"),
                           !.response = Some(IF thrown THEN notFoundResponse
                                                       ELSE got)])
  /\ UNCHANGED <<homeVars, collageVars, canvasOffset, renderVars, envVars,
                 outputSize, selectorSize, cellRects, hitIndex,
                 templateEffect>>

\* event.respondWith (8): the response is sent, the event is over.
Respond ==
  /\ worker # Null
  /\ Val(worker).pc = "done"
  /\ worker' = Null
  /\ UNCHANGED <<homeVars, collageVars, canvasOffset, renderVars, envVars,
                 outputSize, selectorSize, cellRects, hitIndex,
                 templateEffect>>

WorkerNext == Fetch \/ FirstAsset \/ FallbackAsset \/ Respond

SpecWorker == Init /\ [][WorkerNext]_vars

\* C27: a request whose asset is not found is answered with index.html when
\* it is for an application route (the URL ends with "/" or its path has no
\* file extension) and index.html is an asset the store delivers, and with
\* 404 when it is for no route; every request is answered.
C27_RoutesGetIndex ==
  (worker # Null /\ Val(worker).pc = "done") =>
    LET w == Val(worker)
    IN /\ w.response # Null
       /\ w.first = Some("NotFoundError") =>
            IF IsRoutePath(w.request)
              THEN \/ Val(w.response) =
                          [status |-> 200, asset |-> <<"/">> \o IndexHtml]
                      \/ (<<"/">> \o IndexHtml) \notin w.store
                      \/ w.second = Some("InternalError")
              ELSE Val(w.response).status = 404

-----------------------------------------------------------------------------
(* SpecRecommend: the recommendation effect of Home.tsx (45-83) run by run. *)
(* Effects above takes the effect to its fixed point in one step; here one  *)
(* step is one run, so that a page on which the effect never comes to rest  *)
(* is a behaviour of the model.  templateEffect.ref tells the object that   *)
(* selectedTemplate is from the one it was before (the dependencies are     *)
(* compared with Object.is), templateEffect.deps is what the effect saw     *)
(* when it ran last.                                                        *)

MaxRecommendImages == 10

\* [uploadedImages.length, selectedTemplate] (83)
RecommendDeps == <<Len(uploadedImages), templateEffect.ref>>

\* The effect is to run: the page has just mounted or a dependency changed.
RecommendPending == templateEffect.deps # Some(RecommendDeps)

\* n data URLs
RecommendImages(n) ==
  [k \in 1 .. n |-> FileNames[((k - 1) % Len(FileNames)) + 1]]

\* onImagesUpload={setUploadedImages} (141): uploads and removals
SetUploadedImages ==
  /\ ~RecommendPending
  /\ \E n \in 0 .. MaxRecommendImages :
       uploadedImages' = RecommendImages(n)
  /\ UNCHANGED <<selectedTemplate, aspectRatio, resolution, selectedFilter,
                 collageVars, canvasOffset, renderVars, envVars, outputSize,
                 selectorSize, cellRects, hitIndex, worker, templateEffect>>

\* onTemplateSelect={setSelectedTemplate} (173)
SetSelectedTemplate ==
  /\ ~RecommendPending
  /\ \E t \in Range(generateTemplatesForCount(Len(uploadedImages)))
                \ {selectedTemplate} :
       selectedTemplate' = t
  /\ templateEffect' = [templateEffect EXCEPT !.ref = 1 - @]
  /\ UNCHANGED <<uploadedImages, aspectRatio, resolution, selectedFilter,
                 collageVars, canvasOffset, renderVars, envVars, outputSize,
                 selectorSize, cellRects, hitIndex, worker>>

\* useEffect 45-83: one run.  recommendedTemplate is an object made in this
\* run, so setSelectedTemplate always changes the state.
RecommendEffect ==
  /\ RecommendPending
  /\ IF /\ Len(uploadedImages) > 0
        /\ Len(uploadedImages) > totalSlots(selectedTemplate)
       THEN /\ selectedTemplate' = getRecommendedTemplate(Len(uploadedImages))
            /\ templateEffect' = [ref |-> 1 - templateEffect.ref,
                                  deps |-> Some(RecommendDeps)]
       ELSE /\ templateEffect' = [templateEffect EXCEPT
                                    !.deps = Some(RecommendDeps)]
            /\ UNCHANGED selectedTemplate
  /\ UNCHANGED <<uploadedImages, aspectRatio, resolution, selectedFilter,
                 collageVars, canvasOffset, renderVars, envVars, outputSize,
                 selectorSize, cellRects, hitIndex, worker>>

RecommendNext == SetUploadedImages \/ SetSelectedTemplate \/ RecommendEffect

\* React runs every effect that is to run.
SpecRecommend ==
  Init /\ [][RecommendNext]_vars /\ WF_vars(RecommendEffect)

\* C28: whatever the number of uploaded images, the recommendation effect
\* comes to rest: once it is to run, after finitely many runs the template
\* is no longer replaced and no run is left to do.
C28_RecommendationSettles == RecommendPending ~> ~RecommendPending

=============================================================================
